---- MODULE Spec2Model ----
(***************************************************************************)
(* A model of xLearn's Loss base class (src/loss/loss.h), the row-range    *)
(* partition helpers getStart/getEnd, the loss/score registries, the       *)
(* score functions, the early-stopping Checker and the Hogwild-style       *)
(* CalcGrad.  Each part has its own variables and its own specification;   *)
(* a specification leaves the variables of the other parts parked.         *)
(***************************************************************************)
EXTENDS Integers, Sequences, FiniteSets

VARIABLES
  \* ---- getStart / getEnd applied thread by thread
  count, total, starts, ends,
  \* ---- one Loss object: its members, the heap of thread pools, one Predict call
  lossState, score_func_, norm_, threadNumber_, pool_, livePools, poolsMade,
  callState, calls, matrix, model, pred, written, tasks,
  \* ---- one call of Loss::Sign or Loss::Sigmoid
  signState, signOp, sign_pred, new_pred, sign_pred0, new_pred0,
  \* ---- the loss and score registries
  regPhase, loss_registry, score_registry, results,
  \* ---- one FM and one FFM score of a row
  num_K, fm_model, ffm_model, score_row, scored, fm_out, ffm_out,
  \* ---- the early-stopping Checker
  stop_window, epoch, history, best_loss, best_epoch, best_model, stop_counter,
  checkerState,
  \* ---- one CalcGrad call
  gradState, grad_T, grad_matrix, grad_w, grad_w0, grad_tasks, processed,
  lostUpdate

partVars == <<count, total, starts, ends>>
lossVars == <<lossState, score_func_, norm_, threadNumber_, pool_, livePools,
              poolsMade, callState, calls, matrix, model, pred, written, tasks>>
signVars == <<signState, signOp, sign_pred, new_pred, sign_pred0, new_pred0>>
regVars == <<regPhase, loss_registry, score_registry, results>>
scoreVars == <<num_K, fm_model, ffm_model, score_row, scored, fm_out, ffm_out>>
checkerVars == <<stop_window, epoch, history, best_loss, best_epoch, best_model,
                 stop_counter, checkerState>>
gradVars == <<gradState, grad_T, grad_matrix, grad_w, grad_w0, grad_tasks,
              processed, lostUpdate>>
vars == <<partVars, lossVars, signVars, regVars, scoreVars, checkerVars, gradVars>>

\* What an action of one part leaves alone: the variables of the other parts.
notPart == <<lossVars, signVars, regVars, scoreVars, checkerVars, gradVars>>
notLoss == <<partVars, signVars, regVars, scoreVars, checkerVars, gradVars>>
notSign == <<partVars, lossVars, regVars, scoreVars, checkerVars, gradVars>>
notReg == <<partVars, lossVars, signVars, scoreVars, checkerVars, gradVars>>
notScore == <<partVars, lossVars, signVars, regVars, checkerVars, gradVars>>
notChecker == <<partVars, lossVars, signVars, regVars, scoreVars, gradVars>>
notGrad == <<partVars, lossVars, signVars, regVars, scoreVars, checkerVars>>

-----------------------------------------------------------------------------
(* Bounds of the model *)
MaxRows == 7
MaxThreads == 4
MaxBatch == 3
MaxHW == 3
MaxInit == 2
MaxCalls == 2
MaxLen == 2
MaxCreate == 2
MaxK == 2
MaxLoss == 3
MaxWindow == 2
MaxEpoch == 5
MaxGradThreads == 2
MaxGradRows == 3

(* Program constants: the shape of the models the tests build *)
NumFeature == 3
NumField == 3
NumK == 24

-----------------------------------------------------------------------------
(* getStart / getEnd, loss.h:143-157.  index_t is an unsigned integer; with *)
(* 0 <= id < total both products are at most count, so nothing wraps.       *)

\* getStart with the gap scaled by the wrong index: every range starts at 0.
getStart_Zero(cnt, tot, id) ==
  LET gap == cnt \div tot
      start_id == 0 * gap
  IN  start_id

getStart(cnt, tot, id) ==
  LET gap == cnt \div tot
      start_id == id * gap
  IN  start_id

\* getEnd with the remainder added for every thread, not only the last.
getEnd_RemainEveryThread(cnt, tot, id) ==
  LET gap == cnt \div tot
      remain == cnt % tot
      end_index == (id + 1) * gap
  IN  end_index + remain

\* getEnd without the remainder of the last thread.
getEnd_NoRemain(cnt, tot, id) ==
  LET gap == cnt \div tot
      end_index == (id + 1) * gap
  IN  end_index

getEnd(cnt, tot, id) ==
  LET gap == cnt \div tot
      remain == cnt % tot
      end_index == (id + 1) * gap
  IN  IF id = tot - 1 THEN end_index + remain ELSE end_index

PartInit ==
  /\ count \in 0..MaxRows
  /\ total \in 1..MaxThreads
  /\ starts = <<>>
  /\ ends = <<>>

\* The dispatch loop of Predict/CalcGrad: for (i = 0; i < threadNumber_; ++i)
\* computes the i-th range.  Thread id i is stored at position i+1.
ComputeRange ==
  /\ Len(starts) < total
  /\ LET id == Len(starts) IN
       /\ starts' = Append(starts, getStart(count, total, id))
       /\ ends' = Append(ends, getEnd(count, total, id))
  /\ UNCHANGED <<count, total>>
  /\ UNCHANGED notPart

-----------------------------------------------------------------------------
(* Sparse rows and the linear score.  A SparseRow is a sequence of nodes    *)
(* (feature index, value, field index); the rows below are the ones         *)
(* loss_test.cc builds (every feature present with value 1) and a shorter   *)
(* one, so that different rows can have different scores.                   *)

Features == 0..(NumFeature - 1)

Node(f, x, fld) == [feat_id |-> f, feat_val |-> x, field_id |-> fld]

UnitRow == [j \in 1..NumFeature |-> Node(j - 1, 1, j - 1)]

ShortRow == <<Node(0, 1, 0)>>

RowKinds == {UnitRow, ShortRow}

RECURSIVE LinearTerm(_, _)
LinearTerm(row, wts) ==
  IF row = <<>> THEN 0
  ELSE wts[Head(row).feat_id] * Head(row).feat_val + LinearTerm(Tail(row), wts)

\* CalcScore of the linear score: bias + sum of w[i] * x_i, the row's
\* contribution rescaled by norm_factor.
LinearScore(row, mdl, norm_factor) ==
  mdl.b + norm_factor * LinearTerm(row, mdl.w)

\* The batches of the tests carry no rescaling: the factor of every row is 1.
RowNorm(row) == 1

\* Model::Initialize followed by the tests' fill of w: every weight wv, bias 0.
LinearModel(wv) == [w |-> [f \in Features |-> wv], b |-> 0]

WVals == {1, 2}

-----------------------------------------------------------------------------
(* The Loss object, loss.h:73-140 *)

\* Loss() { }: the constructor sets no member, so score_func_, norm_, pool_ and
\* threadNumber_ hold whatever the storage held (pool_: null, 0, or a wild
\* pointer, -1).  No pool exists yet.
LossInit ==
  /\ lossState = "constructed"
  /\ score_func_ = "wild"
  /\ norm_ \in BOOLEAN
  /\ threadNumber_ \in 0..MaxHW
  /\ pool_ \in {0, -1}
  /\ livePools = {}
  /\ poolsMade = 0
  /\ callState = "idle"
  /\ calls = 0
  /\ matrix = <<>>
  /\ model = LinearModel(0)
  /\ pred = <<>>
  /\ written = <<>>
  /\ tasks = <<>>

\* std::thread::hardware_concurrency(): the number of hardware threads, or 0
\* when the value is not computable.
hardware_concurrency == 0..MaxHW

\* Initialize(score, norm), loss.h:80-85.  new ThreadPool(threadNumber_)
\* makes a fresh pool (the next pool id) and overwrites pool_.
Initialize ==
  /\ lossState \in {"constructed", "initialized"}
  /\ callState # "running"
  /\ poolsMade < MaxInit
  /\ \E score \in {"linear"}, norm \in BOOLEAN, hw \in hardware_concurrency :
       /\ score_func_' = score
       /\ norm_' = norm
       /\ threadNumber_' = hw
  /\ pool_' = poolsMade + 1
  /\ livePools' = livePools \cup {poolsMade + 1}
  /\ poolsMade' = poolsMade + 1
  /\ lossState' = "initialized"
  /\ UNCHANGED <<callState, calls, matrix, model, pred, written, tasks>>
  /\ UNCHANGED notLoss

\* The task Predict enqueues for thread id: rows [start, end) on the pool.
PredTask(n, id) ==
  [start |-> getStart(n, threadNumber_, id),
   end   |-> getEnd(n, threadNumber_, id),
   next  |-> getStart(n, threadNumber_, id),
   pool  |-> pool_]

\* Predict(data_matrix, model, pred), first half: one task per thread id is
\* enqueued on pool_.  pred comes in sized to the batch, zero-filled.
PredictBegin ==
  /\ lossState = "initialized"
  /\ callState # "running"
  /\ calls < MaxCalls
  /\ \E n \in 0..MaxBatch :
       \E m \in [1..n -> RowKinds], wv \in WVals :
         /\ matrix' = m
         /\ model' = LinearModel(wv)
         /\ pred' = [i \in 1..n |-> 0]
         /\ written' = [i \in 1..n |-> 0]
         /\ tasks' = [t \in 1..threadNumber_ |-> PredTask(n, t - 1)]
  /\ callState' = "running"
  /\ calls' = calls + 1
  /\ UNCHANGED <<lossState, score_func_, norm_, threadNumber_, pool_, livePools,
                 poolsMade>>
  /\ UNCHANGED notLoss

\* One worker step of a Predict task: the next row of its range is scored
\* and the score stored in that row's slot of pred.
PredictStep(t) ==
  /\ callState = "running"
  /\ tasks[t].next < tasks[t].end
  /\ LET i == tasks[t].next + 1 IN
       /\ pred' = [pred EXCEPT ![i] = LinearScore(matrix[i], model, RowNorm(matrix[i]))]
       /\ written' = [written EXCEPT ![i] = @ + 1]
  /\ tasks' = [tasks EXCEPT ![t].next = @ + 1]
  /\ UNCHANGED <<lossState, score_func_, norm_, threadNumber_, pool_, livePools,
                 poolsMade, callState, calls, matrix, model>>
  /\ UNCHANGED notLoss

TaskDone(t) == tasks[t].next >= tasks[t].end

\* Predict, second half: the barrier join on the pool, then the return.
PredictReturn ==
  /\ callState = "running"
  /\ \A t \in DOMAIN tasks : TaskDone(t)
  /\ callState' = "returned"
  /\ UNCHANGED <<lossState, score_func_, norm_, threadNumber_, pool_, livePools,
                 poolsMade, calls, matrix, model, pred, written, tasks>>
  /\ UNCHANGED notLoss

\* virtual ~Loss() { }, loss.h:77: the body is empty, pool_ is not deleted.
Destroy ==
  /\ lossState \in {"constructed", "initialized"}
  /\ callState # "running"
  /\ lossState' = "destroyed"
  /\ livePools' = livePools
  /\ UNCHANGED <<score_func_, norm_, threadNumber_, pool_, poolsMade, callState,
                 calls, matrix, model, pred, written, tasks>>
  /\ UNCHANGED notLoss

LossNext ==
  \/ Initialize
  \/ PredictBegin
  \/ \E t \in DOMAIN tasks : PredictStep(t)
  \/ PredictReturn
  \/ Destroy

-----------------------------------------------------------------------------
(* Loss::Sigmoid and Loss::Sign, loss.h:103-126.  Predictions are reals;    *)
(* the model takes them from a few integers around 0.  sigmoid is           *)
(* 1 / (1 + exp(-x)), given here in thousandths, rounded.                   *)

PredVals == {-3, -1, 0, 1, 3}

\* What a caller's new_pred may hold before the call: the zero of a freshly
\* sized vector, or an older value.
StaleVals == {0, 7}

SeqsUpTo(S, n) == UNION {[1..k -> S] : k \in 0..n}

sigmoid(x) ==
  CASE x = -3 -> 47
    [] x = -1 -> 269
    [] x = 0 -> 500
    [] x = 1 -> 731
    [] x = 3 -> 953

\* CHECK_EQ(a, b): the process goes on only when a = b, and ends otherwise.
CHECK_EQ(a, b) == a = b

\* Sigmoid with the length check after the loop: the common indices are
\* written before the process ends.
Sigmoid_CheckAfterLoop(p, np) ==
  LET out == [i \in 1..Len(np) |-> IF i <= Len(p) THEN sigmoid(p[i]) ELSE np[i]]
  IN  IF CHECK_EQ(Len(p), Len(np))
      THEN [status |-> "returned", new_pred |-> out]
      ELSE [status |-> "aborted", new_pred |-> out]

\* Sigmoid(pred, new_pred): the status of the call and new_pred after it.
Sigmoid(p, np) ==
  IF CHECK_EQ(Len(p), Len(np))
  THEN [status |-> "returned",
        new_pred |-> [i \in 1..Len(p) |-> sigmoid(p[i])]]
  ELSE [status |-> "aborted", new_pred |-> np]

\* Sign with > in place of >=.
Sign_Strict(p, np) ==
  IF CHECK_EQ(Len(p), Len(np))
  THEN [status |-> "returned",
        new_pred |-> [i \in 1..Len(p) |-> IF p[i] > 0 THEN 1 ELSE 0]]
  ELSE [status |-> "aborted", new_pred |-> np]

\* Sign(pred, new_pred): the status of the call and new_pred after it.
Sign(p, np) ==
  IF CHECK_EQ(Len(p), Len(np))
  THEN [status |-> "returned",
        new_pred |-> [i \in 1..Len(p) |-> IF p[i] >= 0 THEN 1 ELSE 0]]
  ELSE [status |-> "aborted", new_pred |-> np]

SignInit ==
  /\ signState = "ready"
  /\ signOp = "none"
  /\ sign_pred \in SeqsUpTo(PredVals, MaxLen)
  /\ new_pred \in SeqsUpTo(StaleVals, MaxLen)
  /\ sign_pred0 = sign_pred
  /\ new_pred0 = new_pred

CallSigmoid ==
  /\ signState = "ready"
  /\ signOp' = "Sigmoid"
  /\ signState' = Sigmoid(sign_pred, new_pred).status
  /\ new_pred' = Sigmoid(sign_pred, new_pred).new_pred
  /\ UNCHANGED <<sign_pred, sign_pred0, new_pred0>>
  /\ UNCHANGED notSign

CallSign ==
  /\ signState = "ready"
  /\ signOp' = "Sign"
  /\ signState' = Sign(sign_pred, new_pred).status
  /\ new_pred' = Sign(sign_pred, new_pred).new_pred
  /\ UNCHANGED <<sign_pred, sign_pred0, new_pred0>>
  /\ UNCHANGED notSign

SignNext == CallSigmoid \/ CallSign

-----------------------------------------------------------------------------
(* The registries.  loss.h:162-174 defines the loss registry and routes     *)
(* REGISTER_LOSS / CREATE_LOSS to it; the registry itself and the score     *)
(* registry follow the documented behaviour: a name-keyed table of          *)
(* creators, filled by static registration before main, whose lookup gives  *)
(* a new object of the registered class, or null when the name is absent.   *)

LossClasses ==
  {[name |-> "squared", creator |-> "SquaredLoss"],
   [name |-> "hinge", creator |-> "HingeLoss"],
   [name |-> "cross-entropy", creator |-> "CrossEntropyLoss"]}

ScoreClasses ==
  {[name |-> "linear", creator |-> "LinearScore"],
   [name |-> "fm", creator |-> "FMScore"],
   [name |-> "ffm", creator |-> "FFMScore"]}

\* The names asked for: every registered name, the empty string, and the
\* unregistered name of loss_test.cc.
QueryNames ==
  {"squared", "hinge", "cross-entropy", "linear", "fm", "ffm", "", "unknow_name"}

\* CLASS_REGISTER_OBJECT_CREATOR: the entry is added to the registry.
AddCreator(registry, format_name, class_name) ==
  registry \cup {[name |-> format_name, creator |-> class_name]}

\* CLASS_REGISTER_CREATE_OBJECT: the creator's new object, or NULL.
CreateObject(registry, format_name) ==
  IF \E e \in registry : e.name = format_name
  THEN (CHOOSE e \in registry : e.name = format_name).creator
  ELSE "NULL"

REGISTER_LOSS(format_name, loss_name) ==
  AddCreator(loss_registry, format_name, loss_name)

\* CREATE_LOSS looking the name up in the score registry.
CREATE_LOSS_ScoreRegistry(format_name) ==
  CreateObject(score_registry, format_name)

CREATE_LOSS(format_name) ==
  CreateObject(loss_registry, format_name)

REGISTER_SCORE(format_name, score_name) ==
  AddCreator(score_registry, format_name, score_name)

CREATE_SCORE(format_name) ==
  CreateObject(score_registry, format_name)

RegInit ==
  /\ regPhase = "static_init"
  /\ loss_registry = {}
  /\ score_registry = {}
  /\ results = <<>>

\* The static registration objects run in no fixed order.
RegisterLoss ==
  /\ regPhase = "static_init"
  /\ \E c \in LossClasses \ loss_registry :
       loss_registry' = REGISTER_LOSS(c.name, c.creator)
  /\ UNCHANGED <<regPhase, score_registry, results>>
  /\ UNCHANGED notReg

RegisterScore ==
  /\ regPhase = "static_init"
  /\ \E c \in ScoreClasses \ score_registry :
       score_registry' = REGISTER_SCORE(c.name, c.creator)
  /\ UNCHANGED <<regPhase, loss_registry, results>>
  /\ UNCHANGED notReg

EnterMain ==
  /\ regPhase = "static_init"
  /\ loss_registry = LossClasses
  /\ score_registry = ScoreClasses
  /\ regPhase' = "main"
  /\ UNCHANGED <<loss_registry, score_registry, results>>
  /\ UNCHANGED notReg

CreateLoss ==
  /\ regPhase = "main"
  /\ Len(results) < MaxCreate
  /\ \E n \in QueryNames :
       results' = Append(results,
                    [registry |-> "loss", name |-> n, object |-> CREATE_LOSS(n)])
  /\ UNCHANGED <<regPhase, loss_registry, score_registry>>
  /\ UNCHANGED notReg

CreateScore ==
  /\ regPhase = "main"
  /\ Len(results) < MaxCreate
  /\ \E n \in QueryNames :
       results' = Append(results,
                    [registry |-> "score", name |-> n, object |-> CREATE_SCORE(n)])
  /\ UNCHANGED <<regPhase, loss_registry, score_registry>>
  /\ UNCHANGED notReg

RegNext ==
  \/ RegisterLoss
  \/ RegisterScore
  \/ EnterMain
  \/ CreateLoss
  \/ CreateScore

-----------------------------------------------------------------------------
(* The FM and FFM scores.  CalcScore is bias + sum of w[i] x_i plus, for    *)
(* fm, the sum over pairs i < j of <v_i, v_j> x_i x_j and, for ffm, the     *)
(* sum over pairs i < j of <v_{i,field(j)}, v_{j,field(i)}> x_i x_j.        *)

Fields == 0..(NumField - 1)

VVals == {1, 2}

XVals == {1, 2}

LatentVecs(K) == [1..K -> VVals]

RECURSIVE SumFn(_)
SumFn(f) ==
  IF DOMAIN f = {} THEN 0
  ELSE LET e == CHOOSE x \in DOMAIN f : TRUE
       IN  f[e] + SumFn([x \in (DOMAIN f) \ {e} |-> f[x]])

Dot(u, v) == SumFn([k \in DOMAIN u |-> u[k] * v[k]])

Pairs(row) == {pq \in (1..Len(row)) \X (1..Len(row)) : pq[1] < pq[2]}

PairsWithSelf(row) == {pq \in (1..Len(row)) \X (1..Len(row)) : pq[1] <= pq[2]}

FMPairTerm(row, v, pq) ==
  LET n1 == row[pq[1]]
      n2 == row[pq[2]]
  IN  Dot(v[n1.feat_id], v[n2.feat_id]) * n1.feat_val * n2.feat_val

FFMPairTerm(row, v, pq) ==
  LET n1 == row[pq[1]]
      n2 == row[pq[2]]
  IN  Dot(v[n1.feat_id][n2.field_id], v[n2.feat_id][n1.field_id])
        * n1.feat_val * n2.feat_val

\* FMScore with the pair sum running over i <= j.
FMScore_SelfPairs(row, mdl, norm_factor) ==
  mdl.b + norm_factor *
    (LinearTerm(row, mdl.w)
     + SumFn([pq \in PairsWithSelf(row) |-> FMPairTerm(row, mdl.v, pq)]))

FMScore(row, mdl, norm_factor) ==
  mdl.b + norm_factor *
    (LinearTerm(row, mdl.w)
     + SumFn([pq \in Pairs(row) |-> FMPairTerm(row, mdl.v, pq)]))

FFMScore(row, mdl, norm_factor) ==
  mdl.b + norm_factor *
    (LinearTerm(row, mdl.w)
     + SumFn([pq \in Pairs(row) |-> FFMPairTerm(row, mdl.v, pq)]))

\* The FM model: every w is wv, the latent vector of every feature is c but
\* that of feature df, which is d.
FMModel(wv, c, d, df) ==
  [w |-> [f \in Features |-> wv],
   v |-> [f \in Features |-> IF f = df THEN d ELSE c],
   b |-> 0]

\* The FFM model: the latent vector of every (feature, field) is c but that
\* of (df, dfl), which is d.
FFMModel(wv, c, d, df, dfl) ==
  [w |-> [f \in Features |-> wv],
   v |-> [f \in Features |->
            [fl \in Fields |-> IF f = df /\ fl = dfl THEN d ELSE c]],
   b |-> 0]

\* A row with every feature present, value xv, feature j in field fa[j].
FieldRow(xv, fa) == [j \in 1..NumFeature |-> Node(j - 1, xv, fa[j])]

ScoreKs == (1..MaxK) \cup {NumK}

\* The latent vectors tried for K: all of them for small K, the tests'
\* all-ones vector for the tests' K.
LatentChoices(K) ==
  IF K <= MaxK THEN LatentVecs(K) ELSE {[k \in 1..K |-> 1]}

ScoreInit ==
  \E K \in ScoreKs, wv \in WVals, xv \in XVals, df \in Features, dfl \in Fields :
    \E c \in LatentChoices(K), d \in LatentChoices(K),
       fa \in [1..NumFeature -> Fields] :
      /\ num_K = K
      /\ fm_model = FMModel(wv, c, d, df)
      /\ ffm_model = FFMModel(wv, c, d, df, dfl)
      /\ score_row = FieldRow(xv, fa)
      /\ scored = {}
      /\ fm_out = 0
      /\ ffm_out = 0

PredictFM ==
  /\ "fm" \notin scored
  /\ fm_out' = FMScore(score_row, fm_model, RowNorm(score_row))
  /\ scored' = scored \cup {"fm"}
  /\ UNCHANGED <<num_K, fm_model, ffm_model, score_row, ffm_out>>
  /\ UNCHANGED notScore

PredictFFM ==
  /\ "ffm" \notin scored
  /\ ffm_out' = FFMScore(score_row, ffm_model, RowNorm(score_row))
  /\ scored' = scored \cup {"ffm"}
  /\ UNCHANGED <<num_K, fm_model, ffm_model, score_row, fm_out>>
  /\ UNCHANGED notScore

ScoreNext == PredictFM \/ PredictFFM

-----------------------------------------------------------------------------
(* The Checker: fed one validation loss per epoch, it keeps the best loss,  *)
(* its epoch and the model of that epoch, counts the consecutive epochs     *)
(* without a new best, and declares EarlyStopped when the count reaches     *)
(* stop_window.                                                             *)

LossVals == 1..MaxLoss

\* The model as it stands after epoch e.
ModelAt(e) == [trained_epochs |-> e]

\* A tie with the best loss taken for a new best.
NewBest_OrEqual(loss) == epoch = 0 \/ loss <= best_loss

NewBest(loss) == epoch = 0 \/ loss < best_loss

CheckerInit ==
  /\ stop_window \in 1..MaxWindow
  /\ epoch = 0
  /\ history = <<>>
  /\ best_loss = 0
  /\ best_epoch = 0
  /\ best_model = ModelAt(0)
  /\ stop_counter = 0
  /\ checkerState = "Running"

CheckEpoch ==
  /\ checkerState = "Running"
  /\ epoch < MaxEpoch
  /\ \E loss \in LossVals :
       /\ history' = Append(history, loss)
       /\ IF NewBest(loss)
          THEN /\ best_loss' = loss
               /\ best_epoch' = epoch + 1
               /\ best_model' = ModelAt(epoch + 1)
               /\ stop_counter' = 0
               /\ checkerState' = "Running"
          ELSE /\ stop_counter' = stop_counter + 1
               /\ checkerState' = IF stop_counter + 1 >= stop_window
                                  THEN "EarlyStopped" ELSE "Running"
               /\ UNCHANGED <<best_loss, best_epoch, best_model>>
  /\ epoch' = epoch + 1
  /\ UNCHANGED stop_window
  /\ UNCHANGED notChecker

MaxEpochReached ==
  /\ checkerState = "Running"
  /\ epoch = MaxEpoch
  /\ checkerState' = "MaxEpochReached"
  /\ UNCHANGED <<stop_window, epoch, history, best_loss, best_epoch, best_model,
                 stop_counter>>
  /\ UNCHANGED notChecker

CheckerNext == CheckEpoch \/ MaxEpochReached

-----------------------------------------------------------------------------
(* CalcGrad of a loss over the linear score, for the squared loss: per row  *)
(* the prediction, the gradient scale pred - label, and the sparse update   *)
(* w[i] -= scale * x_i of the row's features (learning rate 1, no           *)
(* regularisation, no accumulator).  The rows are split over the tasks by   *)
(* getStart/getEnd; the model is shared and the update of a slot is a       *)
(* load followed by a store, with no lock.                                  *)

PairRow == <<Node(0, 1, 0), Node(1, 1, 1)>>

GradRowKinds == {[y |-> 0, row |-> ShortRow], [y |-> 0, row |-> PairRow]}

GradScale(grow, wts) == LinearScore(grow.row, [w |-> wts, b |-> 0], 1) - grow.y

RECURSIVE ApplyNodes(_, _, _)
ApplyNodes(wts, nodes, scale) ==
  IF nodes = <<>> THEN wts
  ELSE ApplyNodes([wts EXCEPT ![Head(nodes).feat_id] = @ - scale * Head(nodes).feat_val],
                  Tail(nodes), scale)

\* The model after the rows have been processed one after the other.
RECURSIVE SequentialGrad(_, _)
SequentialGrad(rows, wts) ==
  IF rows = <<>> THEN wts
  ELSE SequentialGrad(Tail(rows),
                      ApplyNodes(wts, Head(rows).row, GradScale(Head(rows), wts)))

GradTask(n, id) ==
  [start |-> getStart(n, grad_T, id),
   end   |-> getEnd(n, grad_T, id),
   next  |-> getStart(n, grad_T, id),
   pc    |-> "score",
   scale |-> 0,
   k     |-> 1,
   reg   |-> 0]

\* The thread count Initialize stored: whatever the hardware query returned.
hardware_concurrency_grad == 0..MaxGradThreads

GradInit ==
  /\ gradState = "idle"
  /\ grad_T \in hardware_concurrency_grad
  /\ grad_matrix \in SeqsUpTo(GradRowKinds, MaxGradRows)
  /\ grad_w = [f \in Features |-> 1]
  /\ grad_w0 = grad_w
  /\ grad_tasks = <<>>
  /\ processed = [i \in 1..Len(grad_matrix) |-> 0]
  /\ lostUpdate = FALSE

\* CalcGrad(data_matrix, model), first half: one task per thread id.
CalcGradBegin ==
  /\ gradState = "idle"
  /\ grad_tasks' = [t \in 1..grad_T |-> GradTask(Len(grad_matrix), t - 1)]
  /\ gradState' = "running"
  /\ UNCHANGED <<grad_T, grad_matrix, grad_w, grad_w0, processed, lostUpdate>>
  /\ UNCHANGED notGrad

\* A task takes its next row: the prediction and the gradient scale.
GradScore(t) ==
  /\ gradState = "running"
  /\ grad_tasks[t].pc = "score"
  /\ grad_tasks[t].next < grad_tasks[t].end
  /\ LET grow == grad_matrix[grad_tasks[t].next + 1] IN
       grad_tasks' = [grad_tasks EXCEPT ![t].scale = GradScale(grow, grad_w),
                                        ![t].k = 1,
                                        ![t].pc = "load"]
  /\ UNCHANGED <<gradState, grad_T, grad_matrix, grad_w, grad_w0, processed,
                 lostUpdate>>
  /\ UNCHANGED notGrad

\* The load of the slot of the row's k-th feature.
GradLoad(t) ==
  /\ gradState = "running"
  /\ grad_tasks[t].pc = "load"
  /\ LET node == grad_matrix[grad_tasks[t].next + 1].row[grad_tasks[t].k] IN
       grad_tasks' = [grad_tasks EXCEPT ![t].reg = grad_w[node.feat_id],
                                        ![t].pc = "store"]
  /\ UNCHANGED <<gradState, grad_T, grad_matrix, grad_w, grad_w0, processed,
                 lostUpdate>>
  /\ UNCHANGED notGrad

\* The store of the updated value; after the row's last feature the row is
\* done.  lostUpdate records a store over a value another task stored since
\* the load.
GradStore(t) ==
  /\ gradState = "running"
  /\ grad_tasks[t].pc = "store"
  /\ LET tk == grad_tasks[t]
         row == grad_matrix[tk.next + 1].row
         node == row[tk.k]
     IN
       /\ grad_w' = [grad_w EXCEPT ![node.feat_id] = tk.reg - tk.scale * node.feat_val]
       /\ lostUpdate' = (lostUpdate \/ grad_w[node.feat_id] # tk.reg)
       /\ IF tk.k < Len(row)
          THEN /\ grad_tasks' = [grad_tasks EXCEPT ![t].k = @ + 1, ![t].pc = "load"]
               /\ UNCHANGED processed
          ELSE /\ grad_tasks' = [grad_tasks EXCEPT ![t].next = @ + 1,
                                                   ![t].pc = "score"]
               /\ processed' = [processed EXCEPT ![tk.next + 1] = @ + 1]
  /\ UNCHANGED <<gradState, grad_T, grad_matrix, grad_w0>>
  /\ UNCHANGED notGrad

GradTaskDone(t) ==
  grad_tasks[t].pc = "score" /\ grad_tasks[t].next >= grad_tasks[t].end

\* CalcGrad, second half: the barrier join, then the return.
CalcGradReturn ==
  /\ gradState = "running"
  /\ \A t \in DOMAIN grad_tasks : GradTaskDone(t)
  /\ gradState' = "returned"
  /\ UNCHANGED <<grad_T, grad_matrix, grad_w, grad_w0, grad_tasks, processed,
                 lostUpdate>>
  /\ UNCHANGED notGrad

GradNext ==
  \/ CalcGradBegin
  \/ \E t \in DOMAIN grad_tasks : GradScore(t)
  \/ \E t \in DOMAIN grad_tasks : GradLoad(t)
  \/ \E t \in DOMAIN grad_tasks : GradStore(t)
  \/ CalcGradReturn

-----------------------------------------------------------------------------
(* The specifications: each part from its initial states, the other parts   *)
(* parked.                                                                  *)

PartParked ==
  /\ count = 0 /\ total = 1 /\ starts = <<>> /\ ends = <<>>

LossParked ==
  /\ lossState = "parked" /\ score_func_ = "none" /\ norm_ = FALSE
  /\ threadNumber_ = 0 /\ pool_ = 0 /\ livePools = {} /\ poolsMade = 0
  /\ callState = "idle" /\ calls = 0 /\ matrix = <<>> /\ model = LinearModel(0)
  /\ pred = <<>> /\ written = <<>> /\ tasks = <<>>

SignParked ==
  /\ signState = "parked" /\ signOp = "none" /\ sign_pred = <<>>
  /\ new_pred = <<>> /\ sign_pred0 = <<>> /\ new_pred0 = <<>>

RegParked ==
  /\ regPhase = "parked" /\ loss_registry = {} /\ score_registry = {}
  /\ results = <<>>

ScoreParked ==
  /\ num_K = 0 /\ fm_model = LinearModel(0) /\ ffm_model = LinearModel(0)
  /\ score_row = <<>> /\ scored = {} /\ fm_out = 0 /\ ffm_out = 0

CheckerParked ==
  /\ stop_window = 0 /\ epoch = 0 /\ history = <<>> /\ best_loss = 0
  /\ best_epoch = 0 /\ best_model = ModelAt(0) /\ stop_counter = 0
  /\ checkerState = "parked"

GradParked ==
  /\ gradState = "parked" /\ grad_T = 0 /\ grad_matrix = <<>>
  /\ grad_w = <<>> /\ grad_w0 = <<>> /\ grad_tasks = <<>>
  /\ processed = <<>> /\ lostUpdate = FALSE

Init ==
  /\ LossInit
  /\ PartParked /\ SignParked /\ RegParked /\ ScoreParked /\ CheckerParked
  /\ GradParked

Spec == Init /\ [][LossNext]_vars

InitPartition ==
  /\ PartInit
  /\ LossParked /\ SignParked /\ RegParked /\ ScoreParked /\ CheckerParked
  /\ GradParked

SpecPartition == InitPartition /\ [][ComputeRange]_vars

InitSign ==
  /\ SignInit
  /\ PartParked /\ LossParked /\ RegParked /\ ScoreParked /\ CheckerParked
  /\ GradParked

SpecSign == InitSign /\ [][SignNext]_vars

InitRegistry ==
  /\ RegInit
  /\ PartParked /\ LossParked /\ SignParked /\ ScoreParked /\ CheckerParked
  /\ GradParked

SpecRegistry == InitRegistry /\ [][RegNext]_vars

InitScore ==
  /\ ScoreInit
  /\ PartParked /\ LossParked /\ SignParked /\ RegParked /\ CheckerParked
  /\ GradParked

SpecScore == InitScore /\ [][ScoreNext]_vars

InitChecker ==
  /\ CheckerInit
  /\ PartParked /\ LossParked /\ SignParked /\ RegParked /\ ScoreParked
  /\ GradParked

SpecChecker == InitChecker /\ [][CheckerNext]_vars

InitGrad ==
  /\ GradInit
  /\ PartParked /\ LossParked /\ SignParked /\ RegParked /\ ScoreParked
  /\ CheckerParked

SpecCalcGrad == InitGrad /\ [][GradNext]_vars

-----------------------------------------------------------------------------
(* Claims *)

RECURSIVE SumSizes(_)
SumSizes(n) == IF n = 0 THEN 0 ELSE (ends[n] - starts[n]) + SumSizes(n - 1)

Owners(r) == {i \in 1..Len(starts) : starts[i] <= r /\ r < ends[i]}

\* C1: for N >= 0 rows and T >= 1 threads the ranges [getStart, getEnd) of
\* thread ids 0..T-1 start at 0, are contiguous and pairwise disjoint, every
\* range but the last has floor(N/T) rows, the last has floor(N/T) + N mod T,
\* and together they cover [0, N) exactly: the sizes sum to N and every row
\* has exactly one owner.
C1_PartitionExact ==
  LET n == Len(starts) IN
    /\ n > 0 => starts[1] = 0
    /\ \A i \in 1..n : starts[i] <= ends[i]
    /\ \A i \in 1..(n - 1) : ends[i] = starts[i + 1]
    /\ \A i \in 1..n : i < total => ends[i] - starts[i] = count \div total
    /\ \A r \in 0..(count - 1) : Cardinality(Owners(r)) <= 1
    /\ n = total =>
         /\ ends[n] - starts[n] = (count \div total) + (count % total)
         /\ ends[n] = count
         /\ SumSizes(n) = count
         /\ \A r \in 0..(count - 1) : Cardinality(Owners(r)) = 1

\* C1 witness: all ranges of a partition with several threads and a nonzero
\* remainder have been computed.
C1_Witness ==
  /\ Len(starts) = total /\ total >= 2
  /\ count > total /\ count % total # 0

\* C2: once Predict has returned from a call that dispatched T >= 1 tasks on
\* N rows, every task has completed and every slot i < N of out_predictions
\* holds the score of row i, written by exactly one task; no slot is ever
\* written twice; with every weight 2 a row of 3 unit features scores 6.
C2_PredictComplete ==
  Len(tasks) >= 1 =>
    /\ \A i \in 1..Len(written) : written[i] <= 1
    /\ callState = "returned" =>
         /\ \A t \in DOMAIN tasks : TaskDone(t)
         /\ Len(pred) = Len(matrix)
         /\ \A i \in 1..Len(matrix) :
              /\ written[i] = 1
              /\ pred[i] = LinearScore(matrix[i], model, RowNorm(matrix[i]))
              /\ (matrix[i] = UnitRow /\ model = LinearModel(2)) => pred[i] = 6

\* C2 witness: a call with fewer rows than tasks (some ranges empty) has
\* returned with the tests' model and rows.
C2_Witness ==
  /\ callState = "returned"
  /\ Len(matrix) >= 1 /\ Len(tasks) > Len(matrix)
  /\ model = LinearModel(2)
  /\ \A i \in 1..Len(matrix) : matrix[i] = UnitRow /\ pred[i] = 6

\* C8: the Loss creates its pool once, never has more than one live pool,
\* uses that pool for every call, and after the Loss is destroyed no pool it
\* created is still live.
C8_PoolLifecycle ==
  /\ poolsMade <= 1
  /\ Cardinality(livePools) <= 1
  /\ \A t \in DOMAIN tasks : tasks[t].pool \in livePools
  /\ lossState = "destroyed" => livePools = {}

\* C10: after Initialize the stored thread count is at least 1 whatever the
\* hardware-parallelism query returned, so every Predict call dispatches at
\* least one row-range task.
C10_ThreadCountPositive ==
  /\ lossState = "initialized" => threadNumber_ >= 1
  /\ callState \in {"running", "returned"} => Len(tasks) >= 1

\* C3: a creation by name through the loss registry gives a non-null object
\* exactly for "squared", "hinge" and "cross-entropy", and one through the
\* score registry exactly for "linear", "fm" and "ffm"; the empty string and
\* an unregistered name give null, and the creation returns.
C3_RegistryLookup ==
  \A i \in 1..Len(results) :
    LET r == results[i] IN
      /\ r.registry = "loss" =>
           (r.object # "NULL" <=> r.name \in {"squared", "hinge", "cross-entropy"})
      /\ r.registry = "score" =>
           (r.object # "NULL" <=> r.name \in {"linear", "fm", "ffm"})
      /\ r.name \in {"", "unknow_name"} => r.object = "NULL"

\* C3 witness: a registered loss name has been created and the empty string
\* has been asked of the loss registry.
C3_Witness ==
  /\ Len(results) = 2
  /\ results[1] = [registry |-> "loss", name |-> "squared", object |-> "SquaredLoss"]
  /\ results[2] = [registry |-> "loss", name |-> "", object |-> "NULL"]

\* C4: after Sign on vectors of equal length, new_pred has an entry for every
\* index, 1 where pred[i] >= 0 (0 included) and 0 where pred[i] < 0, and pred
\* is as it was.
C4_SignRule ==
  (signOp = "Sign" /\ signState = "returned") =>
    /\ sign_pred = sign_pred0
    /\ Len(new_pred) = Len(sign_pred)
    /\ \A i \in 1..Len(sign_pred) :
         /\ sign_pred[i] >= 0 => new_pred[i] = 1
         /\ sign_pred[i] < 0 => new_pred[i] = 0

\* C4 witness: Sign has returned on a vector holding a zero and a negative
\* value, over stale values in new_pred.
C4_Witness ==
  /\ signOp = "Sign" /\ signState = "returned"
  /\ \E i, j \in 1..Len(sign_pred) : sign_pred[i] = 0 /\ sign_pred[j] < 0
  /\ \A i \in 1..Len(new_pred0) : new_pred0[i] = 7

\* C7: Sigmoid and Sign end the process exactly when the two lengths differ,
\* and then new_pred is as the caller passed it; with equal lengths (both
\* empty included) the call returns.
C7_LengthCheckFatal ==
  /\ signState = "aborted" =>
       /\ Len(sign_pred0) # Len(new_pred0)
       /\ new_pred = new_pred0
  /\ signState = "returned" => Len(sign_pred0) = Len(new_pred0)
  /\ signOp # "none" => signState \in {"aborted", "returned"}

\* C7 witness: Sigmoid ended the process on non-empty vectors of different
\* lengths.
C7_Witness ==
  /\ signOp = "Sigmoid" /\ signState = "aborted"
  /\ Len(sign_pred0) >= 1 /\ Len(new_pred0) >= 1

ScenarioB ==
  /\ num_K = NumK
  /\ \A f \in Features : fm_model.w[f] = 2 /\ ffm_model.w[f] = 2
  /\ \A f \in Features : \A k \in 1..num_K : fm_model.v[f][k] = 1
  /\ \A f \in Features : \A fl \in Fields : \A k \in 1..num_K :
       ffm_model.v[f][fl][k] = 1
  /\ \A j \in 1..Len(score_row) : score_row[j].feat_val = 1

AllLatentEqual ==
  \E c \in LatentChoices(num_K) :
    /\ \A f \in Features : fm_model.v[f] = c
    /\ \A f \in Features : \A fl \in Fields : ffm_model.v[f][fl] = c

\* C5: with w = 2 and v = 1 everywhere, num_K = 24 and 3 unit features the FM
\* score is 78 and so is the FFM score, whatever the fields of the features;
\* and whenever all latent vectors are equal the FFM score equals the FM
\* score (same w and bias, so the pairwise sums are equal) for every
\* assignment of in-range fields.
C5_FMAndFFMScores ==
  /\ ("fm" \in scored /\ ScenarioB) => fm_out = 78
  /\ ("ffm" \in scored /\ ScenarioB) => ffm_out = 78
  /\ (scored = {"fm", "ffm"} /\ AllLatentEqual) => ffm_out = fm_out

\* C5 witness: both scores computed in the tests' scenario, each feature in
\* its own field.
C5_Witness ==
  /\ scored = {"fm", "ffm"} /\ ScenarioB
  /\ \A j \in 1..Len(score_row) : score_row[j].field_id = j - 1
  /\ fm_out = 78 /\ ffm_out = 78

RECURSIVE MinOf(_, _)
MinOf(h, k) == IF k = 1 THEN h[1]
               ELSE IF h[k] < MinOf(h, k - 1) THEN h[k] ELSE MinOf(h, k - 1)

\* Epoch k improved on the running best of the epochs before it.
Improves(h, k) == k = 1 \/ h[k] < MinOf(h, k - 1)

LastImprove(h, k) == CHOOSE j \in 1..k :
                       Improves(h, j) /\ \A i \in (j + 1)..k : ~Improves(h, i)

\* The consecutive epochs up to k without an improvement.
Trailing(h, k) == k - LastImprove(h, k)

\* C6: EarlyStopped is declared at the epoch at which the loss has failed to
\* improve on the running best for stop_window consecutive epochs and at no
\* earlier epoch; the counter is the length of the current run of epochs
\* without a new best; and the kept epoch and model are those of the best
\* loss so far.
C6_EarlyStopAtWindow ==
  epoch >= 1 =>
    /\ checkerState = "EarlyStopped" <=> Trailing(history, epoch) = stop_window
    /\ \A k \in 1..(epoch - 1) : Trailing(history, k) < stop_window
    /\ stop_counter = Trailing(history, epoch)
    /\ best_epoch = LastImprove(history, epoch)
    /\ best_loss = MinOf(history, epoch)
    /\ history[best_epoch] = best_loss
    /\ best_model = ModelAt(best_epoch)

\* C6 witness: an early stop after the counter was reset by a later best and
\* then ran through a tie; the kept model is not the last epoch's.
C6_Witness ==
  /\ checkerState = "EarlyStopped"
  /\ stop_window >= 2
  /\ best_epoch >= 3
  /\ history[epoch - 1] = best_loss
  /\ best_model # ModelAt(epoch)

\* C9: within one CalcGrad call no row is processed by two tasks and, when
\* there is a task at all, at the return every row has been processed once;
\* with one thread the model is
\* the sequential result and no update was lost.  (That a lost update is
\* reachable with several threads is the witness.)
C9_RowsDisjointUpdatesRacy ==
  /\ \A i \in 1..Len(processed) : processed[i] <= 1
  /\ \A t, u \in DOMAIN grad_tasks :
       (t # u /\ ~GradTaskDone(t) /\ ~GradTaskDone(u)) =>
         grad_tasks[t].next # grad_tasks[u].next
  /\ gradState = "returned" =>
       /\ grad_T >= 1 => \A i \in 1..Len(processed) : processed[i] = 1
       /\ grad_T = 1 =>
            /\ ~lostUpdate
            /\ grad_w = SequentialGrad(grad_matrix, grad_w0)

\* C9 witness: a call with several threads has returned after a lost update,
\* with a model that differs from the sequential result.
C9_Witness ==
  /\ gradState = "returned"
  /\ grad_T >= 2
  /\ lostUpdate
  /\ grad_w # SequentialGrad(grad_matrix, grad_w0)

====
